---------------------------- MODULE Spec2Model ----------------------------
(***************************************************************************)
(* Double-Life-Game: a Bevy application that runs a cellular automaton    *)
(* whose cells carry an integer life level.                               *)
(*                                                                         *)
(* The model follows src/src/in_game.rs (grid, timer, generation),        *)
(* src/src/in_game/ui.rs (START / STOP / EXIT) and src/src/main_menu.rs   *)
(* (New Game).  One Bevy frame is: the StateTransition schedule, then the *)
(* Update schedule, whose systems carry no ordering constraint and so run *)
(* in either order.                                                        *)
(*                                                                         *)
(* Scaling.  grid_num ranges over 0..MaxGrid and its default (100 in the  *)
(* source) is DefaultGrid; the seeding cap initial_alive_count (10000) is *)
(* SeedCap, which, as in the source, the default grid does not exceed;    *)
(* usize::MAX is UsizeMax.  A Duration (nanoseconds in the source) counts *)
(* quarters of a second; an f32 number of seconds, finer than a Duration  *)
(* can hold, counts eighths, so the default update_interval 0.5 is 4 and  *)
(* the Duration made from it is 2.                                         *)
(***************************************************************************)
EXTENDS Integers, Sequences, FiniteSets, TLC

\* ------------------------------------------------------------------ bounds
\* Largest grid_num of the generation engine's specification (GenSpec).
MaxGrid == 3
\* Largest grid_num of the application's specification (Spec).
AppMaxGrid == 2
\* Stand-in for the default grid_num = 100 (in_game.rs:68): as 100 * 100 does
\* not exceed initial_alive_count, DefaultGrid * DefaultGrid <= SeedCap.
DefaultGrid == 1
\* Largest max_life a configuration edit sets.
MaxLife == 2
\* Largest damage_amount / heal_amount an edit sets, besides UsizeMax.
MaxAmount == 2
\* Largest value an edit sets a survive / birth bound to.
MaxRule == 3
\* Stand-in for initial_alive_count = 10000 (in_game.rs:131).
SeedCap == 3
\* Stand-in for usize::MAX: life arithmetic saturates here.
UsizeMax == 7
\* Largest update_interval, in eighths of a second.
MaxInterval == 4
\* Largest frame time (Time::delta), in quarter seconds.
MaxDelta == 2
\* Number of configuration edits an external writer makes in one run of the
\* application (Spec) and of the generation engine (GenSpec).
MaxConfigEdits == 2
GenConfigEdits == 1

\* ------------------------------------------------------------------- state
VARIABLES
    appState,    \* State<AppState>: "MainMenu" | "InGame"
    gameState,   \* State<InGameState>: "Stop" | "Processing"
    nextApp,     \* NextState<AppState>: "Unchanged" or the pending state
    nextGame,    \* NextState<InGameState>: "Unchanged" or the pending state
    cells,       \* the GridCell entities, in query iteration (spawn) order
    config,      \* Res<GameConfig>
    timer,       \* GameUpdateTimer.timer
    todo,        \* the Update systems of the current frame that have not run yet
    editsLeft,   \* configuration edits the external writer may still make
    last,        \* history: the last operation that rewrote the grid (op), the
                 \* one before it (prev), and the grid and the configuration
                 \* it started from
    served,      \* history: update_grid has run a generation since the last
                 \* run of update_game_timer
    pass         \* the run of update_grid in progress, pass by pass (used by
                 \* PassSpec only; everywhere else update_grid is one step)

vars == <<appState, gameState, nextApp, nextGame, cells, config, timer, todo,
          editsLeft, last, served, pass>>

\* ----------------------------------------------------------- configuration
\* GameConfig::default(), with grid_num and update_interval scaled.
DefaultConfig(gn) ==
    [ grid_num |-> gn, max_life |-> 2, damage_amount |-> 1, heal_amount |-> 1,
      survive_neighbors_min |-> 2, survive_neighbors_max |-> 3,
      birth_neighbors_min |-> 3, birth_neighbors_max |-> 3,
      update_interval |-> 4 ]

Amounts == (0..MaxAmount) \cup {UsizeMax}

\* The values an external writer may store into a field of GameConfig.
FieldValues(f) ==
    CASE f = "grid_num" -> 0..AppMaxGrid
      [] f = "max_life" -> 0..MaxLife
      [] f \in {"damage_amount", "heal_amount"} -> Amounts
      [] f = "update_interval" -> 1..MaxInterval
      [] OTHER -> 0..MaxRule

ConfigFields == DOMAIN DefaultConfig(0)

\* --------------------------------------------------------------- the timer
\* Duration::from_secs_f32: the nearest Duration, a tie going to the even one.
from_secs_f32(secs) ==
    LET q == secs \div 2 IN
    IF secs % 2 = 0 \/ q % 2 = 0 THEN q ELSE q + 1

\* Duration::as_secs_f32
as_secs_f32(d) == 2 * d

\* `timer.timer.duration().as_secs_f32() != config.update_interval`
DurationDiffers(d, secs) == as_secs_f32(d) # secs

\* Timer::from_seconds(secs, TimerMode::Repeating)
from_seconds(secs) ==
    [duration |-> from_secs_f32(secs), elapsed |-> 0, finished |-> FALSE]

\* Timer::tick for a repeating, unpaused timer.
tick(t, delta) ==
    LET e == t.elapsed + delta IN
    IF e >= t.duration
    THEN [t EXCEPT !.elapsed = IF t.duration = 0 THEN 0 ELSE e % t.duration,
                   !.finished = TRUE]
    ELSE [t EXCEPT !.elapsed = e, !.finished = FALSE]

\* The timer after update_game_timer ran with frame time delta.
update_game_timer(t, delta, cfg) ==
    LET ticked == tick(t, delta) IN
    IF DurationDiffers(ticked.duration, cfg.update_interval)
    THEN from_seconds(cfg.update_interval)
    ELSE ticked


\* ------------------------------------------------------------- grid seeding
\* The life values setup_in_game_scene can give n more cells when alive_count
\* cells are marked already: rng.gen_bool(0.1) is asked only while
\* alive_count < initial_alive_count, and either answer is possible.
RECURSIVE SeedLives(_, _, _)
SeedLives(n, alive_count, cfg) ==
    IF n = 0 THEN {<< >>}
    ELSE LET marked ==
                IF alive_count < SeedCap
                THEN {<<cfg.max_life>> \o s : s \in SeedLives(n - 1, alive_count + 1, cfg)}
                ELSE {}
             unmarked == {<<0>> \o s : s \in SeedLives(n - 1, alive_count, cfg)}
         IN marked \cup unmarked

\* The cells spawned by `for x in 0..grid_num { for y in 0..grid_num {..} }`
\* with the given life values, in spawn order.
SpawnGrid(lives, cfg) ==
    [i \in 1..(cfg.grid_num * cfg.grid_num) |->
        [x |-> (i - 1) \div cfg.grid_num, y |-> (i - 1) % cfg.grid_num,
         life |-> lives[i]]]

\* A close_in_game that despawns nothing.
close_in_game_keeps(cs) == cs

\* close_in_game despawns every entity that carries InGameScene; every
\* GridCell is spawned with it, so no cell stays.
close_in_game(cs) == SelectSeq(cs, LAMBDA c : FALSE)

\* ------------------------------------------------------- generation engine
\* (dx, dy) in the order of `for dx in -1..=1 { for dy in -1..=1 {..} }`.
Offsets ==
    << <<-1, -1>>, <<-1, 0>>, <<-1, 1>>, <<0, -1>>, <<0, 0>>, <<0, 1>>,
       <<1, -1>>, <<1, 0>>, <<1, 1>> >>

\* Mutant of IsSelf: the `continue` for (0, 0) is missing, so an alive cell
\* counts itself.
IsSelfNever(d) == FALSE

\* `if dx == 0 && dy == 0 { continue; }`
IsSelf(d) == d[1] = 0 /\ d[2] = 0

\* Mutant of InBounds: the checks against 0 are missing.
InBoundsUpperOnly(nx, ny, gn) == nx < gn /\ ny < gn

\* nx >= 0 && ny >= 0 && nx < grid_num && ny < grid_num
InBounds(nx, ny, gn) == nx >= 0 /\ ny >= 0 /\ nx < gn /\ ny < gn

\* A lookup that reads a missing entry as 1.
GetOrOne(m, key) == IF key \in DOMAIN m THEN m[key] ELSE 1

\* *neighbor_counts.get(&key).unwrap_or(&0)
Get(m, key) == IF key \in DOMAIN m THEN m[key] ELSE 0

\* The coordinate (nx, ny) that cell c reaches with offset d.
Target(c, d) == <<c.x + d[1], c.y + d[2]>>

\* The iterations of the counting loops that reach
\* `*neighbor_counts.entry(..).or_insert(0) += 1`, each as <<i, key>>: cell i
\* is alive, and key is the target of an offset that is not (0, 0) and that
\* lies in bounds.
Increments(cs, gn) ==
    UNION {
        {<<i, Target(cs[i], Offsets[k])>> :
            k \in {k \in 1..Len(Offsets) :
                    /\ ~IsSelf(Offsets[k])
                    /\ InBounds(cs[i].x + Offsets[k][1], cs[i].y + Offsets[k][2], gn)}} :
        i \in {i \in 1..Len(cs) : cs[i].life > 0}}

\* The HashMap neighbor_counts after the counting pass: a key is present
\* once it was incremented, and holds the number of its increments.
neighbor_counts(cs, cfg) ==
    LET incs == Increments(cs, cfg.grid_num)
    IN [key \in {h[2] : h \in incs} |-> Cardinality({h \in incs : h[2] = key})]

\* Mutant of saturating_add: usize::wrapping_add.
wrapping_add(a, b) == (a + b) % (UsizeMax + 1)

\* usize::saturating_sub and usize::saturating_add
\* usize::wrapping_sub
wrapping_sub(a, b) == (a - b) % (UsizeMax + 1)

saturating_sub(a, b) == IF b > a THEN 0 ELSE a - b
saturating_add(a, b) == IF a + b > UsizeMax THEN UsizeMax ELSE a + b

\* usize::clamp(min, max)
\* A clamp that keeps the lower bound only.
clamp_lower(v, lo, hi) == IF v < lo THEN lo ELSE v

clamp(v, lo, hi) == IF v < lo THEN lo ELSE IF v > hi THEN hi ELSE v

\* Mutant of NextLife: the heal check is an `if` of its own instead of an
\* `else if`, so a damaged cell inside the birth range is healed as well.
NextLifeTwoIfs(life, neighbors, cfg) ==
    LET damaged == IF \/ neighbors < cfg.survive_neighbors_min
                      \/ neighbors > cfg.survive_neighbors_max
                   THEN saturating_sub(life, cfg.damage_amount)
                   ELSE life
        healed == IF /\ neighbors >= cfg.birth_neighbors_min
                     /\ neighbors <= cfg.birth_neighbors_max
                  THEN saturating_add(damaged, cfg.heal_amount)
                  ELSE damaged
        born == IF /\ neighbors >= cfg.birth_neighbors_min
                   /\ neighbors <= cfg.birth_neighbors_max
                THEN cfg.max_life
                ELSE life
    IN clamp(IF life > 0 THEN healed ELSE born, 0, cfg.max_life)

\* Mutant of NextLife: a dead cell inside the birth range gains heal_amount
\* instead of being set to max_life.
NextLifeBirthByHeal(life, neighbors, cfg) ==
    LET l == IF life > 0
             THEN IF \/ neighbors < cfg.survive_neighbors_min
                     \/ neighbors > cfg.survive_neighbors_max
                  THEN saturating_sub(life, cfg.damage_amount)
                  ELSE IF /\ neighbors >= cfg.birth_neighbors_min
                          /\ neighbors <= cfg.birth_neighbors_max
                  THEN saturating_add(life, cfg.heal_amount)
                  ELSE life
             ELSE IF /\ neighbors >= cfg.birth_neighbors_min
                     /\ neighbors <= cfg.birth_neighbors_max
                  THEN saturating_add(life, cfg.heal_amount)
                  ELSE life
    IN clamp(l, 0, cfg.max_life)

\* Mutant of NextLife: every alive cell inside the survive range is healed,
\* the birth range is not consulted.
NextLifeHealInSurvive(life, neighbors, cfg) ==
    LET l == IF life > 0
             THEN IF \/ neighbors < cfg.survive_neighbors_min
                     \/ neighbors > cfg.survive_neighbors_max
                  THEN saturating_sub(life, cfg.damage_amount)
                  ELSE saturating_add(life, cfg.heal_amount)
             ELSE IF /\ neighbors >= cfg.birth_neighbors_min
                     /\ neighbors <= cfg.birth_neighbors_max
                  THEN cfg.max_life
                  ELSE life
    IN clamp(l, 0, cfg.max_life)

\* Mutant of NextLife: the final clamp to [0, max_life] is missing.
NextLifeNoClamp(life, neighbors, cfg) ==
    IF life > 0
    THEN IF \/ neighbors < cfg.survive_neighbors_min
            \/ neighbors > cfg.survive_neighbors_max
         THEN saturating_sub(life, cfg.damage_amount)
         ELSE IF /\ neighbors >= cfg.birth_neighbors_min
                 /\ neighbors <= cfg.birth_neighbors_max
         THEN saturating_add(life, cfg.heal_amount)
         ELSE life
    ELSE IF /\ neighbors >= cfg.birth_neighbors_min
            /\ neighbors <= cfg.birth_neighbors_max
         THEN cfg.max_life
         ELSE life

\* The body of the next-life loop for one cell: its life and neighbor count.
NextLife(life, neighbors, cfg) ==
    LET l == IF life > 0
             THEN IF \/ neighbors < cfg.survive_neighbors_min
                     \/ neighbors > cfg.survive_neighbors_max
                  THEN saturating_sub(life, cfg.damage_amount)
                  ELSE IF /\ neighbors >= cfg.birth_neighbors_min
                          /\ neighbors <= cfg.birth_neighbors_max
                  THEN saturating_add(life, cfg.heal_amount)
                  ELSE life
             ELSE IF /\ neighbors >= cfg.birth_neighbors_min
                     /\ neighbors <= cfg.birth_neighbors_max
                  THEN cfg.max_life
                  ELSE life
    IN clamp(l, 0, cfg.max_life)

\* The Vec next_life: one value per cell, in query order.
ComputeNextLife(cs, counts, cfg) ==
    [i \in 1..Len(cs) |-> NextLife(cs[i].life, Get(counts, <<cs[i].x, cs[i].y>>), cfg)]

\* Mutant of Commit: a cell whose new life is 0 is despawned.
CommitDropDead(cs, next_life) ==
    SelectSeq([i \in 1..Len(cs) |->
                  IF i <= Len(next_life) THEN [cs[i] EXCEPT !.life = next_life[i]]
                  ELSE cs[i]],
              LAMBDA c : c.life > 0)

\* The commit pass: query.iter_mut().zip(next_life) writes cell.life only,
\* for as many cells as the shorter of the two has.
Commit(cs, next_life) ==
    [i \in 1..Len(cs) |->
        IF i <= Len(next_life) THEN [cs[i] EXCEPT !.life = next_life[i]] ELSE cs[i]]

\* Mutant of Generation: each cell is rewritten as soon as it is computed, so
\* the cells after it are counted against lives of the new generation.
\* InPlacePrefix is the grid once its first k cells are rewritten.
RECURSIVE InPlacePrefix(_, _, _)
InPlacePrefix(cs, k, cfg) ==
    IF k = 0 THEN cs
    ELSE CHOOSE r \in
            {[g EXCEPT ![k].life =
                NextLife(g[k].life, Get(neighbor_counts(g, cfg), <<g[k].x, g[k].y>>), cfg)] :
             g \in {InPlacePrefix(cs, k - 1, cfg)}} : TRUE

GenerationInPlace(cs, cfg) == InPlacePrefix(cs, Len(cs), cfg)

\* The grid after update_grid ran with a finished timer.
Generation(cs, cfg) == Commit(cs, ComputeNextLife(cs, neighbor_counts(cs, cfg), cfg))

\* update_grid: nothing happens unless timer.timer.finished().
update_grid(cs, cfg, t) == IF ~t.finished THEN cs ELSE Generation(cs, cfg)

\* ------------------------------------------------- query iteration order
\* query.iter() and query.iter_mut() visit the GridCell entities in an order
\* Bevy chooses; the passes of one update_grid run over the same tables and
\* so share it.  An order is a permutation of the cells' indices: order[k]
\* is the cell visited k-th.
Rotation(n, k) == [i \in 1..n |-> ((i - 1 + k) % n) + 1]

Reversed(order) == [i \in 1..Len(order) |-> order[Len(order) + 1 - i]]

\* The iteration orders considered for n cells.
Orders(n) ==
    IF n = 0 THEN {<< >>}
    ELSE {Rotation(n, k) : k \in 0..(n - 1)}
            \cup {Reversed(Rotation(n, k)) : k \in 0..(n - 1)}

\* The Vec next_life when the compute pass visits the cells in `order`:
\* its k-th value belongs to cell order[k].
ComputeNextLifeBy(order, cs, counts, cfg) ==
    [k \in 1..Len(order) |->
        NextLife(cs[order[k]].life,
                 Get(counts, <<cs[order[k]].x, cs[order[k]].y>>), cfg)]

\* A commit pass that writes next_life[i] into the i-th spawned cell whatever
\* order the values were computed in.
CommitSpawnOrder(order, cs, next_life) == Commit(cs, next_life)

\* The commit pass visiting the cells in `order`: the k-th value of the zip
\* goes to cell order[k].
CommitBy(order, cs, next_life) ==
    [i \in 1..Len(cs) |->
        LET k == CHOOSE p \in 1..Len(order) : order[p] = i
        IN [cs[i] EXCEPT !.life = next_life[k]]]

\* The compute and commit passes of one generation with the queries
\* iterating in `order`, counts being the HashMap of the counting pass (which
\* adds 1 per alive neighbour and so is the same in any order).
GenerationBy(order, cs, counts, cfg) ==
    CommitBy(order, cs, ComputeNextLifeBy(order, cs, counts, cfg))

\* ------------------------------------------------------------------ frames
\* The Update systems without their run_if condition.
UpdateSystemsAlways(gs) == {"update_game_timer", "update_grid"}

\* The Update systems gated by run_if(in_state(InGameState::Processing)).
UpdateSystems(gs) ==
    IF gs = "Processing" THEN {"update_game_timer", "update_grid"} ELSE {}

NoHistory == [op |-> "none", prev |-> "none", cells |-> << >>, config |-> DefaultConfig(0)]

\* No run of update_grid is in progress; seen is the grid the colour pass
\* (lines 261-272) of the last run saw, << >> before the first run.
NoPass(seen) ==
    [pc |-> "idle", k |-> 0, next_life |-> << >>, old |-> << >>,
     cfg |-> DefaultConfig(0), seen |-> seen]

NothingPending == nextApp = "Unchanged" /\ nextGame = "Unchanged"

\* A frame starts with nothing pending in NextState: the StateTransition
\* schedule changes nothing and the Update schedule begins.
FrameStart ==
    /\ todo = {}
    /\ NothingPending
    /\ todo' = UpdateSystems(gameState)
    /\ UNCHANGED <<appState, gameState, nextApp, nextGame, cells, config, timer,
                   editsLeft, last, served, pass>>

\* StateTransition with NextState<InGameState> pending (START or STOP).
GameStateTransition ==
    /\ todo = {}
    /\ nextGame # "Unchanged"
    /\ gameState' = nextGame
    /\ nextGame' = "Unchanged"
    /\ todo' = UpdateSystems(nextGame)
    /\ UNCHANGED <<appState, nextApp, cells, config, timer, editsLeft, last,
                   served, pass>>

\* StateTransition MainMenu -> InGame: OnEnter(AppState::InGame) runs
\* setup_in_game_scene, which spawns the grid.
EnterInGame ==
    /\ todo = {}
    /\ appState = "MainMenu"
    /\ nextApp = "InGame"
    /\ appState' = "InGame"
    /\ nextApp' = "Unchanged"
    /\ \E lives \in SeedLives(config.grid_num * config.grid_num, 0, config) :
          cells' = cells \o SpawnGrid(lives, config)
    /\ last' = [op |-> "setup_in_game_scene", prev |-> last.op, cells |-> cells,
                config |-> config]
    /\ todo' = UpdateSystems(gameState)
    /\ UNCHANGED <<gameState, nextGame, config, timer, editsLeft, served, pass>>

\* StateTransition InGame -> MainMenu: OnExit(AppState::InGame) runs
\* close_in_game.
ExitInGame ==
    /\ todo = {}
    /\ appState = "InGame"
    /\ nextApp = "MainMenu"
    /\ appState' = "MainMenu"
    /\ nextApp' = "Unchanged"
    /\ cells' = close_in_game(cells)
    /\ last' = [op |-> "close_in_game", prev |-> last.op, cells |-> cells,
                config |-> config]
    /\ todo' = UpdateSystems(gameState)
    /\ UNCHANGED <<gameState, nextGame, config, timer, editsLeft, served, pass>>

\* handle_button_interaction, one arm per button that became Pressed.  One
\* pointer presses one button in a frame, and the next frame's
\* StateTransition takes the pending state.
PressStart ==
    /\ appState = "InGame" /\ NothingPending
    /\ nextGame' = "Processing"
    /\ UNCHANGED <<appState, gameState, nextApp, cells, config, timer, todo,
                   editsLeft, last, served, pass>>

PressStop ==
    /\ appState = "InGame" /\ NothingPending
    /\ nextGame' = "Stop"
    /\ UNCHANGED <<appState, gameState, nextApp, cells, config, timer, todo,
                   editsLeft, last, served, pass>>

PressExit ==
    /\ appState = "InGame" /\ NothingPending
    /\ nextApp' = "MainMenu"
    /\ UNCHANGED <<appState, gameState, nextGame, cells, config, timer, todo,
                   editsLeft, last, served, pass>>

\* handle_main_menu_actions, MainMenuAction::NewGame pressed.
PressNewGame ==
    /\ appState = "MainMenu" /\ NothingPending
    /\ nextApp' = "InGame"
    /\ UNCHANGED <<appState, gameState, nextGame, cells, config, timer, todo,
                   editsLeft, last, served, pass>>

\* The system update_game_timer, with Time::delta() = delta.
UpdateGameTimer(delta) ==
    /\ "update_game_timer" \in todo
    /\ timer' = update_game_timer(timer, delta, config)
    /\ todo' = todo \ {"update_game_timer"}
    /\ served' = FALSE
    /\ UNCHANGED <<appState, gameState, nextApp, nextGame, cells, config,
                   editsLeft, last, pass>>

\* An update_grid that computes with the configuration it saw when the grid
\* was last rewritten instead of the current Res<GameConfig>.
UpdateGridCached ==
    /\ "update_grid" \in todo
    /\ cells' = update_grid(cells, last.config, timer)
    /\ last' = IF timer.finished
               THEN [op |-> "update_grid", prev |-> last.op, cells |-> cells,
                     config |-> last.config]
               ELSE last
    /\ todo' = todo \ {"update_grid"}
    /\ served' = (timer.finished \/ served)
    /\ UNCHANGED <<appState, gameState, nextApp, nextGame, config, timer,
                   editsLeft, pass>>

\* The system update_grid.
UpdateGrid ==
    /\ "update_grid" \in todo
    /\ cells' = update_grid(cells, config, timer)
    /\ last' = IF timer.finished
               THEN [op |-> "update_grid", prev |-> last.op, cells |-> cells,
                     config |-> config]
               ELSE last
    /\ todo' = todo \ {"update_grid"}
    /\ served' = (timer.finished \/ served)
    /\ UNCHANGED <<appState, gameState, nextApp, nextGame, config, timer,
                   editsLeft, pass>>

\* GameConfig is a pub resource with pub fields that every system reads
\* afresh through Res<GameConfig>: a writer outside these files stores v in
\* field f between two systems.  grid_num is written only while no game
\* session exists, so that the cells of a session are those of
\* [0, grid_num) x [0, grid_num).
SetConfigField(f, v) ==
    /\ editsLeft > 0
    /\ v # config[f]
    /\ f = "grid_num" => appState = "MainMenu"
    /\ config' = [config EXCEPT ![f] = v]
    /\ editsLeft' = editsLeft - 1
    /\ UNCHANGED <<appState, gameState, nextApp, nextGame, cells, timer, todo,
                   last, served, pass>>

EditConfig == \E f \in ConfigFields : \E v \in FieldValues(f) : SetConfigField(f, v)

\* -------------------------------------------------------- the application
\* App::new() ... .run(): the main menu, no grid, the default resources.
Init ==
    /\ appState = "MainMenu"
    /\ gameState = "Stop"
    /\ nextApp = "Unchanged"
    /\ nextGame = "Unchanged"
    /\ cells = << >>
    /\ config = DefaultConfig(DefaultGrid)
    /\ timer = from_seconds(4)
    /\ todo = {}
    /\ editsLeft = MaxConfigEdits
    /\ last = NoHistory
    /\ served = FALSE
    /\ pass = NoPass(<< >>)

Next ==
    \/ FrameStart
    \/ GameStateTransition
    \/ EnterInGame
    \/ ExitInGame
    \/ PressStart
    \/ PressStop
    \/ PressExit
    \/ PressNewGame
    \/ \E delta \in 0..MaxDelta : UpdateGameTimer(delta)
    \/ UpdateGrid
    \/ EditConfig

Spec == Init /\ [][Next]_vars

\* ------------------------------------------------- the generation engine
\* A running session (New Game, then START) on a freshly seeded grid of any
\* size up to MaxGrid, with frames long enough for the timer to finish in
\* each of them.
GenInit ==
    /\ appState = "InGame"
    /\ gameState = "Processing"
    /\ nextApp = "Unchanged"
    /\ nextGame = "Unchanged"
    /\ \E gn \in 0..MaxGrid :
          /\ config = DefaultConfig(gn)
          /\ \E lives \in SeedLives(gn * gn, 0, DefaultConfig(gn)) :
                cells = SpawnGrid(lives, DefaultConfig(gn))
    /\ timer = from_seconds(4)
    /\ todo = {}
    /\ editsLeft = GenConfigEdits
    /\ last = [op |-> "setup_in_game_scene", prev |-> "none", cells |-> << >>,
               config |-> config]
    /\ served = FALSE
    /\ pass = NoPass(<< >>)

GenNext ==
    \/ FrameStart
    \/ UpdateGameTimer(MaxDelta)
    \/ UpdateGrid
    \/ EditConfig

GenSpec == GenInit /\ [][GenNext]_vars

\* ------------------------------------ grid_num changed during a session
\* The external writer stores a new grid_num while a grid exists: from then
\* on the cells are no longer those of [0, grid_num) x [0, grid_num).
SetGridNum(v) ==
    /\ editsLeft > 0
    /\ v # config.grid_num
    /\ config' = [config EXCEPT !.grid_num = v]
    /\ editsLeft' = editsLeft - 1
    /\ UNCHANGED <<appState, gameState, nextApp, nextGame, cells, timer, todo,
                   last, served, pass>>

LiveNext ==
    \/ FrameStart
    \/ UpdateGameTimer(MaxDelta)
    \/ UpdateGrid
    \/ EditConfig
    \/ \E v \in 0..MaxGrid : SetGridNum(v)

\* The generation engine with every field of the configuration, grid_num
\* included, open to change between two generations.
LiveSpec == GenInit /\ [][LiveNext]_vars

\* ------------------------------------------- update_grid, pass by pass
\* update_grid read as its passes, the commit pass as one step per cell.
\* The system holds Query<&mut GridCell>, Res<GameConfig> and
\* Res<GameUpdateTimer> for its whole run, so the scheduler starts no system
\* or writer that touches them before it returns.

\* A colour pass that starts as soon as one cell is committed.
ColourPassEarly == pass.k >= 1 \/ pass.k = Len(cells)

\* The colour pass (lines 261-272) comes after the commit loop has ended.
ColourPassReady == pass.k = Len(cells) \/ pass.k = Len(pass.next_life)

\* Lines 184-251: the gate, then the counting and the compute pass, which
\* only read the grid.
GridBegin ==
    /\ "update_grid" \in todo
    /\ pass.pc = "idle"
    /\ IF ~timer.finished
       THEN /\ todo' = todo \ {"update_grid"}
            /\ UNCHANGED pass
       ELSE /\ pass' = [pc |-> "commit", k |-> 0,
                        next_life |-> ComputeNextLife(cells,
                                          neighbor_counts(cells, config), config),
                        old |-> cells, cfg |-> config, seen |-> pass.seen]
            /\ UNCHANGED todo
    /\ UNCHANGED <<appState, gameState, nextApp, nextGame, cells, config, timer,
                   editsLeft, last, served>>

\* Lines 256-258: one turn of the commit loop.
GridCommitCell ==
    /\ pass.pc = "commit"
    /\ pass.k < Len(cells) /\ pass.k < Len(pass.next_life)
    /\ cells' = [cells EXCEPT ![pass.k + 1].life = pass.next_life[pass.k + 1]]
    /\ pass' = [pass EXCEPT !.k = pass.k + 1]
    /\ UNCHANGED <<appState, gameState, nextApp, nextGame, config, timer, todo,
                   editsLeft, last, served>>

\* Lines 261-273: the colour pass reads every cell, and the system returns.
GridColour ==
    /\ pass.pc = "commit"
    /\ ColourPassReady
    /\ pass' = NoPass(cells)
    /\ last' = [op |-> "update_grid", prev |-> last.op, cells |-> pass.old,
                config |-> pass.cfg]
    /\ served' = TRUE
    /\ todo' = todo \ {"update_grid"}
    /\ UNCHANGED <<appState, gameState, nextApp, nextGame, cells, config, timer,
                   editsLeft>>

PassInit ==
    /\ appState = "InGame"
    /\ gameState = "Processing"
    /\ nextApp = "Unchanged"
    /\ nextGame = "Unchanged"
    /\ \E gn \in 0..AppMaxGrid :
          /\ config = DefaultConfig(gn)
          /\ \E lives \in SeedLives(gn * gn, 0, DefaultConfig(gn)) :
                cells = SpawnGrid(lives, DefaultConfig(gn))
    /\ timer = from_seconds(4)
    /\ todo = {}
    /\ editsLeft = GenConfigEdits
    /\ last = [op |-> "setup_in_game_scene", prev |-> "none", cells |-> << >>,
               config |-> config]
    /\ served = FALSE
    /\ pass = NoPass(<< >>)

PassNext ==
    \/ pass.pc = "idle" /\ FrameStart
    \/ pass.pc = "idle" /\ UpdateGameTimer(MaxDelta)
    \/ pass.pc = "idle" /\ EditConfig
    \/ GridBegin
    \/ GridCommitCell
    \/ GridColour

PassSpec == PassInit /\ [][PassNext]_vars

\* ------------------------------------------- one generation, any rules
\* The generation as a function of its inputs: a frame of a running session
\* in which update_game_timer has just finished the timer and update_grid is
\* about to run, on a grid of any lives up to MaxLife under a configuration
\* of any rule values.
RuleConfigs(gn) ==
    [ grid_num : {gn}, max_life : FieldValues("max_life"),
      damage_amount : Amounts, heal_amount : Amounts,
      survive_neighbors_min : FieldValues("survive_neighbors_min"),
      survive_neighbors_max : FieldValues("survive_neighbors_max"),
      birth_neighbors_min : FieldValues("birth_neighbors_min"),
      birth_neighbors_max : FieldValues("birth_neighbors_max"),
      update_interval : {4} ]

RuleInit ==
    /\ appState = "InGame"
    /\ gameState = "Processing"
    /\ nextApp = "Unchanged"
    /\ nextGame = "Unchanged"
    /\ \E gn \in 0..AppMaxGrid :
          /\ config \in RuleConfigs(gn)
          /\ \E lives \in [1..(gn * gn) -> 0..MaxLife] :
                cells = SpawnGrid(lives, config)
    /\ timer = tick(from_seconds(4), MaxDelta)
    /\ todo = {"update_grid"}
    /\ editsLeft = 0
    /\ last = [op |-> "setup_in_game_scene", prev |-> "none", cells |-> << >>,
               config |-> config]
    /\ served = FALSE
    /\ pass = NoPass(<< >>)

RuleNext == UpdateGrid

RuleSpec == RuleInit /\ [][RuleNext]_vars

\* ===================================================================
\* Properties
\* ===================================================================
\* A generation is the last thing that rewrote the grid: Old is the grid it
\* read, Cfg the configuration it ran with, and cells the grid it left.
AfterGeneration == last.op = "update_grid"
Old == last.cells
Cfg == last.config
Idx == 1..Len(Old)

\* The coordinates of the Moore neighbours of (x, y) that lie inside the grid.
MooreNeighbours(x, y, gn) ==
    {c \in ((x - 1)..(x + 1)) \X ((y - 1)..(y + 1)) :
        /\ c # <<x, y>>
        /\ c[1] \in 0..(gn - 1)
        /\ c[2] \in 0..(gn - 1)}

\* The number of cells with life > 0 among the Moore neighbours of cell i.
AliveNeighbours(cs, i, gn) ==
    LET around == MooreNeighbours(cs[i].x, cs[i].y, gn)
    IN Cardinality({j \in 1..Len(cs) :
          cs[j].life > 0 /\ <<cs[j].x, cs[j].y>> \in around})

\* The neighbor count of cell i of the grid the last generation read.
N(i) == AliveNeighbours(Old, i, Cfg.grid_num)

InSurvive(n, cfg) == cfg.survive_neighbors_min <= n /\ n <= cfg.survive_neighbors_max
InBirth(n, cfg) == cfg.birth_neighbors_min <= n /\ n <= cfg.birth_neighbors_max
Min(a, b) == IF a < b THEN a ELSE b

\* C1: after every generation every cell has 0 <= life <= max_life, for the
\* configuration the generation ran with, whatever the grid held before.
C1_LifeInRange ==
    AfterGeneration =>
        \A i \in 1..Len(cells) : 0 <= cells[i].life /\ cells[i].life <= Cfg.max_life

\* A generation ran on a grid that held a cell above max_life.
C1_Witness ==
    /\ AfterGeneration
    /\ \E i \in Idx : Old[i].life > Cfg.max_life

\* C2: a generation is the synchronous step: the new life of every cell is
\* the rule applied to the old life of that cell and to the number of its
\* neighbours that were alive in the old grid; no value written in the same
\* generation is read.
C2_SynchronousStep ==
    AfterGeneration =>
        /\ Len(cells) = Len(Old)
        /\ \A i \in Idx : cells[i].life = NextLife(Old[i].life, N(i), Cfg)

\* A generation whose result differs from the one a pass that wrote each cell
\* before computing the next would have left.
C2_Witness ==
    /\ AfterGeneration
    /\ cells # GenerationInPlace(Old, Cfg)

\* The count the next-life pass of a generation reads for cell i of the grid
\* it started from, m being its HashMap neighbor_counts.
Used(m, i) == Get(m, <<Old[i].x, Old[i].y>>)

\* C3: the count used for a cell is the number of cells with life > 0 among
\* its Moore neighbours inside the grid: a dead cell adds nothing, an alive
\* one adds 1 whatever its life, no cell counts itself, and a cell without
\* alive neighbours has count 0.
C3_NeighborCount ==
    AfterGeneration =>
        LET m == neighbor_counts(Old, Cfg) IN \A i \in Idx : Used(m, i) = N(i)

\* A generation counted an alive cell that has a dead neighbour and two alive
\* neighbours of different life, next to a grid cell without alive neighbour.
C3_Witness ==
    /\ AfterGeneration
    /\ \E z \in Idx : N(z) = 0 /\ Used(neighbor_counts(Old, Cfg), z) = 0
    /\ \E i \in Idx :
          /\ Old[i].life > 0
          /\ Used(neighbor_counts(Old, Cfg), i) >= 2
          /\ LET around == {j \in Idx : <<Old[j].x, Old[j].y>> \in
                              MooreNeighbours(Old[i].x, Old[i].y, Cfg.grid_num)}
             IN /\ \E d \in around : Old[d].life = 0
                /\ \E j \in around : \E k \in around :
                      Old[j].life > 0 /\ Old[k].life > Old[j].life

OnBorder(v, gn) == v = 0 \/ v = gn - 1
Corner(c, gn) == OnBorder(c.x, gn) /\ OnBorder(c.y, gn)
Edge(c, gn) == OnBorder(c.x, gn) # OnBorder(c.y, gn)

\* C4: counting never wraps and never records a coordinate outside
\* [0, grid_num) x [0, grid_num): a corner cell has count at most 3, an edge
\* cell that is no corner at most 5, every cell at most 8.
C4_NoWrapNoOutside ==
    AfterGeneration =>
        LET m == neighbor_counts(Old, Cfg) IN
        /\ DOMAIN m \subseteq (0..(Cfg.grid_num - 1)) \X (0..(Cfg.grid_num - 1))
        /\ \A i \in Idx :
              /\ Used(m, i) <= 8
              /\ Corner(Old[i], Cfg.grid_num) => Used(m, i) <= 3
              /\ Edge(Old[i], Cfg.grid_num) => Used(m, i) <= 5

\* A generation ran on a grid in which a corner cell had 3 alive neighbours,
\* an edge cell 5 and an inner cell 8.
C4_Witness ==
    /\ AfterGeneration
    /\ LET m == neighbor_counts(Old, Cfg) IN
       /\ \E i \in Idx : Corner(Old[i], Cfg.grid_num) /\ Used(m, i) = 3
       /\ \E j \in Idx : Edge(Old[j], Cfg.grid_num) /\ Used(m, j) = 5
       /\ \E k \in Idx :
             /\ ~Corner(Old[k], Cfg.grid_num) /\ ~Edge(Old[k], Cfg.grid_num)
             /\ Used(m, k) = 8

\* C5: an alive cell whose count is below survive_neighbors_min or above
\* survive_neighbors_max gets life - damage_amount, saturating at 0, then
\* clamped to max_life; it is damaged, never healed, also when the count lies
\* in the birth range.
C5_DamageFirst ==
    AfterGeneration =>
        \A i \in Idx :
            (Old[i].life > 0 /\ ~InSurvive(N(i), Cfg)) =>
                cells[i].life =
                    Min(IF Old[i].life >= Cfg.damage_amount
                        THEN Old[i].life - Cfg.damage_amount ELSE 0,
                        Cfg.max_life)

\* An alive cell outside the survive range and inside the birth range lost
\* damage_amount >= 1 of its life while heal_amount was not 0.
C5_Witness ==
    /\ AfterGeneration
    /\ Cfg.damage_amount >= 1 /\ Cfg.heal_amount >= 1
    /\ \E i \in Idx :
          /\ Old[i].life > 0 /\ ~InSurvive(N(i), Cfg) /\ InBirth(N(i), Cfg)
          /\ Old[i].life <= Cfg.max_life
          /\ cells[i].life = Old[i].life - Cfg.damage_amount

\* C6: a dead cell gets max_life when its count lies in
\* [birth_neighbors_min, birth_neighbors_max] and stays 0 otherwise, never a
\* value in between.
C6_Birth ==
    AfterGeneration =>
        \A i \in Idx :
            Old[i].life = 0 =>
                cells[i].life = IF InBirth(N(i), Cfg) THEN Cfg.max_life ELSE 0

\* With max_life 2 a dead cell with 3 alive neighbours was born with life 2
\* and another dead cell stayed dead.
C6_Witness ==
    /\ AfterGeneration
    /\ Cfg.max_life = 2
    /\ \E i \in Idx : Old[i].life = 0 /\ N(i) = 3 /\ cells[i].life = 2
    /\ \E j \in Idx : Old[j].life = 0 /\ ~InBirth(N(j), Cfg) /\ cells[j].life = 0

\* C7 as stated: an alive cell whose count lies in the survive range and
\* outside the birth range keeps its life unchanged.
C7_Unchanged ==
    AfterGeneration =>
        \A i \in Idx :
            (Old[i].life > 0 /\ InSurvive(N(i), Cfg) /\ ~InBirth(N(i), Cfg)) =>
                cells[i].life = Old[i].life

\* C7 as amended: such a cell keeps its life unchanged when the life is at
\* most max_life, and is clamped to max_life when it is above: its next life
\* is min(life, max_life).
C7_UnchangedUpToClamp ==
    AfterGeneration =>
        \A i \in Idx :
            (Old[i].life > 0 /\ InSurvive(N(i), Cfg) /\ ~InBirth(N(i), Cfg)) =>
                cells[i].life = Min(Old[i].life, Cfg.max_life)

\* With the default ranges an alive cell of life 2 with exactly 2 alive
\* neighbours kept life 2 while heal_amount was not 0.
C7_Witness ==
    /\ AfterGeneration
    /\ Cfg.heal_amount >= 1
    /\ \E i \in Idx :
          /\ Old[i].life = 2 /\ N(i) = 2
          /\ InSurvive(2, Cfg) /\ ~InBirth(2, Cfg)
          /\ cells[i].life = 2

\* C8: an alive cell whose count lies in the survive range and in the birth
\* range gets min(life + heal_amount, max_life), the sum taken without
\* wrapping.
C8_Heal ==
    AfterGeneration =>
        \A i \in Idx :
            (Old[i].life > 0 /\ InSurvive(N(i), Cfg) /\ InBirth(N(i), Cfg)) =>
                cells[i].life = Min(Old[i].life + Cfg.heal_amount, Cfg.max_life)

\* With the default configuration an alive cell of life 1 with exactly 3
\* alive neighbours got life 2.
C8_Witness ==
    /\ AfterGeneration
    /\ Cfg = DefaultConfig(Cfg.grid_num)
    /\ \E i \in Idx : Old[i].life = 1 /\ N(i) = 3 /\ cells[i].life = 2

\* C9: a generation creates, destroys and moves no cell: the cells after it
\* carry, one by one, the coordinates of the cells before it.
C9_CoordinatesKept ==
    AfterGeneration =>
        /\ Len(cells) = Len(Old)
        /\ \A i \in Idx : cells[i].x = Old[i].x /\ cells[i].y = Old[i].y

\* A generation changed the life of a cell and left a dead cell in the grid.
C9_Witness ==
    /\ AfterGeneration
    /\ \E i \in Idx : cells[i].life # Old[i].life
    /\ \E j \in Idx : cells[j].life = 0 /\ Old[j].life > 0

\* ------------------------------------------------------------------ C10
\* The grid right after setup_in_game_scene, before any generation or exit.
AfterSetup == last.op = "setup_in_game_scene"

\* Re-entry: the setup followed a close_in_game of an earlier session.
ReEntry == AfterSetup /\ last.prev = "close_in_game"

\* One cell per coordinate of [0, gn) x [0, gn): exactly gn * gn cells, no
\* coordinate twice, none missing.
OneCellPerCoordinate(cs, gn) ==
    /\ Len(cs) = gn * gn
    /\ \A i, j \in 1..Len(cs) :
          (cs[i].x = cs[j].x /\ cs[i].y = cs[j].y) => i = j
    /\ \A x, y \in 0..(gn - 1) :
          \E i \in 1..Len(cs) : cs[i].x = x /\ cs[i].y = y

\* C10 as stated: after every grid initialisation, re-entry after an exit to
\* the main menu included, the grid holds exactly grid_num * grid_num cells,
\* one per coordinate of [0, grid_num) x [0, grid_num); every life is 0 or
\* max_life; and the number of cells whose life equals max_life is at most
\* the seed count.  grid_num = 0 gives an empty grid.
C10_InitialGridAsStated ==
    AfterSetup =>
        /\ OneCellPerCoordinate(cells, Cfg.grid_num)
        /\ \A i \in 1..Len(cells) : cells[i].life \in {0, Cfg.max_life}
        /\ Cardinality({i \in 1..Len(cells) : cells[i].life = Cfg.max_life})
              <= SeedCap
        /\ Cfg.grid_num = 0 => cells = << >>

\* C10, amended: as above, but the seed count bounds the number of cells
\* with a non-zero life (the marked cells whenever max_life > 0); with
\* max_life = 0 every cell has life 0 = max_life, however many there are.
C10_InitialGrid ==
    AfterSetup =>
        /\ OneCellPerCoordinate(cells, Cfg.grid_num)
        /\ \A i \in 1..Len(cells) : cells[i].life \in {0, Cfg.max_life}
        /\ Cardinality({i \in 1..Len(cells) : cells[i].life > 0}) <= SeedCap
        /\ Cfg.grid_num = 0 => cells = << >>

\* A second session whose grid has more cells than the seed count, all the
\* seed count of them marked and the rest dead.
C10_Witness ==
    /\ ReEntry
    /\ Len(cells) > SeedCap
    /\ Cfg.max_life > 0
    /\ Cardinality({i \in 1..Len(cells) : cells[i].life = Cfg.max_life}) = SeedCap
    /\ \E i \in 1..Len(cells) : cells[i].life = 0


\* ------------------------------------------------------------------ C11
\* C11: the generation step is deterministic.  The grid a generation leaves
\* is a function of the grid snapshot and the rule configuration it started
\* from alone: it is the same whatever order the queries iterate in, and
\* nothing else of the state (timer, run state, pending transitions) enters.
C11_Deterministic ==
    AfterGeneration =>
        LET counts == neighbor_counts(Old, Cfg) IN
        \A order \in Orders(Len(Old)) : cells = GenerationBy(order, Old, counts, Cfg)

\* A generation of a grid of several cells with different fates, for which
\* more than one iteration order exists.
C11_Witness ==
    /\ AfterGeneration
    /\ Cardinality(Orders(Len(Old))) > 2
    /\ \E i, j \in Idx : cells[i].life # Old[i].life /\ cells[j].life = Old[j].life
    /\ \E i, j \in Idx : cells[i].life # cells[j].life


\* ------------------------------------------------------------------ C12
\* The step is a run of the system update_grid / update_game_timer.
GridStep == "update_grid" \in todo /\ todo' = todo \ {"update_grid"}
TimerStep == "update_game_timer" \in todo /\ todo' = todo \ {"update_game_timer"}

\* A firing: timer.finished, set by the tick of the last update_game_timer.
\* It is served once update_grid has run a generation on it.

\* C12: while the simulation runs, every firing of the timer gets exactly one
\* generation, in whatever order update_game_timer and update_grid run in a
\* frame and across STOP / START: update_grid changes no cell while the
\* timer is not finished, it runs no second generation on a firing that was
\* served, and update_game_timer does not tick away a firing that was not.
C12_OneGenerationPerFiring ==
    [][ /\ (GridStep /\ ~timer.finished) => cells' = cells
        /\ (GridStep /\ timer.finished) => ~served
        /\ (TimerStep /\ timer.finished) => served ]_vars


C14_CurrentConfig ==
    [][(GridStep /\ timer.finished) => cells' = Generation(cells, config)]_vars

\* A later generation, run after the configuration was changed, whose result
\* is not the one the configuration of the session's start would have given.
C14_Witness ==
    /\ AfterGeneration
    /\ last.prev = "update_grid"
    /\ \E gn \in 0..MaxGrid :
          /\ Len(Old) = gn * gn
          /\ Cfg # DefaultConfig(gn)
          /\ cells # Generation(Old, DefaultConfig(gn))

\* ------------------------------------------------------------------ C15
\* C15: the commit pass is total and atomic from the outside.  While it runs,
\* the cells it has reached carry the value computed for them and the others
\* their old life, so each cell is written exactly once and with its own
\* value; the grid the counting pass read at the start of a run is a complete
\* generation, never a partly committed one; once the run is over, every
\* cell carries the value computed for it and the colour pass has seen
\* exactly that grid.  No second run starts while one is in progress.
C15_CommitTotalAtomic ==
    /\ pass.pc = "commit" =>
          /\ Len(pass.next_life) = Len(pass.old) /\ Len(cells) = Len(pass.old)
          /\ \A i \in 1..Len(cells) :
                /\ cells[i].x = pass.old[i].x /\ cells[i].y = pass.old[i].y
                /\ cells[i].life =
                      IF i <= pass.k THEN pass.next_life[i] ELSE pass.old[i].life
          /\ pass.next_life =
                ComputeNextLife(pass.old, neighbor_counts(pass.old, pass.cfg), pass.cfg)
          /\ last.op = "update_grid" => pass.old = Generation(last.cells, last.config)
          /\ "update_grid" \in todo
    /\ (pass.pc = "idle" /\ last.op = "update_grid") =>
          /\ cells = Generation(last.cells, last.config)
          /\ pass.seen = cells

\* A run of update_grid in the middle of its commit pass, some cells written
\* and some not, on a grid where the generation changes a cell on each side.
C15_Witness ==
    /\ pass.pc = "commit"
    /\ pass.k >= 1 /\ pass.k < Len(cells)
    /\ \E i \in 1..pass.k : pass.next_life[i] # pass.old[i].life
    /\ \E j \in (pass.k + 1)..Len(cells) : pass.next_life[j] # pass.old[j].life
    /\ last.op = "update_grid"

\* ------------------------------------------------------------------ C16
\* C16: with max_life = 0 a generation does not fail and leaves every cell
\* at life 0, whatever the grid holds and whatever the other configuration
\* values are.
C16_MaxLifeZero ==
    (AfterGeneration /\ Cfg.max_life = 0) =>
        /\ Len(cells) = Len(Old)
        /\ \A i \in Idx : cells[i].life = 0

\* A generation under max_life = 0 of a grid with an alive cell that no
\* branch lowers to 0 by itself and a dead cell in the birth range.
C16_Witness ==
    /\ AfterGeneration
    /\ Cfg.max_life = 0
    /\ \E i \in Idx :
          /\ Old[i].life = MaxLife
          /\ InSurvive(N(i), Cfg) /\ InBirth(N(i), Cfg)
          /\ Cfg.heal_amount = UsizeMax
    /\ \E j \in Idx : Old[j].life = 0 /\ InBirth(N(j), Cfg)

\* ------------------------------------------------------------------ C17
\* C17: generations run only while the run-state is Processing.  While it is
\* Stop neither update_game_timer nor update_grid runs: no step changes the
\* life of a cell (the grid changes only by being spawned or despawned) and
\* the timer keeps its accumulated time.  A pressed START or STOP is pending
\* in NextState and the next StateTransition makes it the run-state.
C17_OnlyWhileProcessing ==
    [][ /\ gameState = "Stop" =>
              /\ ~GridStep /\ ~TimerStep
              /\ timer' = timer
              /\ cells' = cells \/ appState' # appState
        /\ (GridStep \/ TimerStep) => gameState = "Processing"
        /\ (nextGame # "Unchanged" /\ nextGame' # nextGame) =>
              gameState' = nextGame /\ nextGame' = "Unchanged"
        /\ (nextGame = "Unchanged" /\ nextGame' # "Unchanged") =>
              appState = "InGame" /\ gameState' = gameState ]_vars

\* A session that ran a generation, was stopped with part of a period
\* accumulated, and is now at rest.
C17_Witness ==
    /\ appState = "InGame"
    /\ gameState = "Stop"
    /\ nextGame = "Unchanged"
    /\ last.op = "update_grid"
    /\ timer.elapsed > 0
    /\ todo = {}

\* ------------------------------------------------------------------ C18
\* C18: every game session starts stopped.  Whenever the in-game state is
\* entered, after any sequence of START, STOP, EXIT and New Game, the
\* run-state is Stop and no update system is scheduled in that frame; and a
\* generation is applied to a freshly seeded grid only after a START of that
\* session has been taken, that is, never by the very run of the update
\* systems that the entering frame brought along.
C18_SessionsStartStopped ==
    [][ (appState = "MainMenu" /\ appState' = "InGame") =>
            /\ gameState' = "Stop"
            /\ todo' = {} ]_vars

\* ------------------------------------------------------------------ C19
AllDead(cs) == \A i \in 1..Len(cs) : cs[i].life = 0

\* C19: the all-dead grid is a fixed point whenever birth_neighbors_min >= 1:
\* a generation that starts from a grid whose cells all have life 0 and runs
\* with birth_neighbors_min >= 1 leaves every cell at life 0, so every later
\* generation under such a configuration does.
C19_AllDeadFixedPoint ==
    (AfterGeneration /\ AllDead(Old) /\ Cfg.birth_neighbors_min >= 1) =>
        AllDead(cells) /\ Len(cells) = Len(Old)

\* A generation of an all-dead grid of several cells under a configuration
\* that lets cells be born (max_life > 0, a non-empty birth range from 1 on).
C19_Witness ==
    /\ AfterGeneration
    /\ Len(Old) > 1
    /\ AllDead(Old)
    /\ Cfg.max_life > 0
    /\ Cfg.birth_neighbors_min = 1
    /\ Cfg.birth_neighbors_max >= Cfg.birth_neighbors_min
    /\ AllDead(cells)

\* ------------------------------------------------------------------ C20
\* <<g0, ..., gn>>: grid cs and the n generations that follow it under cfg.
RECURSIVE Orbit(_, _, _)
Orbit(cs, cfg, n) ==
    IF n = 0 THEN <<cs>>
    ELSE CHOOSE r \in {Append(o, Generation(o[Len(o)], cfg)) :
                          o \in {Orbit(cs, cfg, n - 1)}} : TRUE

CeilDiv(a, b) == (a + b - 1) \div b

MaxOf(S) == IF S = {} THEN 0 ELSE CHOOSE m \in S : \A v \in S : v <= m

Alive(cs) == {i \in 1..Len(cs) : cs[i].life > 0}

\* C20: life levels delay death instead of preventing it.  From any grid the
\* session reaches, with the generations run under the configuration as it
\* is: (1) under the default configuration a grid whose only alive cell has
\* life 2 has that cell at life 1 and all others dead after one generation,
\* and is all-dead after two; (2) with damage_amount >= 1 an alive cell that
\* is outside the survive range in every generation it is alive in has life
\* 0 after at most ceil(life / damage_amount) generations.
C20_LifeDelaysDeath ==
    LET most == MaxOf({cells[i].life : i \in 1..Len(cells)} \cup {2})
        gn == config.grid_num
    IN
    \A orbit \in {Orbit(cells, config, most)} :
    /\ \A i \in Alive(cells) :
          (config = DefaultConfig(gn) /\ Alive(cells) = {i} /\ cells[i].life = 2) =>
              /\ orbit[2][i].life = 1
              /\ Alive(orbit[2]) = {i}
              /\ AllDead(orbit[3])
    /\ config.damage_amount >= 1 =>
          \A i \in Alive(cells) :
              LET n == CeilDiv(cells[i].life, config.damage_amount) IN
              (\A k \in 1..n :
                  orbit[k][i].life > 0 =>
                      ~InSurvive(AliveNeighbours(orbit[k], i, gn), config))
              => \E k \in 1..n : orbit[k + 1][i].life = 0

\* The default scenario as the session ran it: two generations in a row under
\* the default configuration, the first from a grid of several cells whose
\* only alive cell it left at life 1, the second leaving the grid all-dead.
C20_Witness ==
    /\ AfterGeneration
    /\ last.prev = "update_grid"
    /\ Cfg = DefaultConfig(Cfg.grid_num)
    /\ Len(Old) > 1
    /\ \E i \in Idx : Alive(Old) = {i} /\ Old[i].life = 1
    /\ AllDead(cells)
=============================================================================
